---- MODULE Spec2Model ----
(***************************************************************************)
(* A model of catalyst/exchange/exchange_utils.py: the exchange symbol     *)
(* cache (get_exchange_symbols), the per-algorithm object/table store      *)
(* (get/save_algo_object, get/save_algo_df), the frequency parser          *)
(* (get_frequency) and the bar resampler (resample_history_df).            *)
(*                                                                         *)
(* Strings that the code takes apart (paths, frequency expressions) are    *)
(* sequences of tokens; the filesystem is a set of directories and a       *)
(* function from file paths to contents.                                   *)
(***************************************************************************)
EXTENDS Integers, Sequences, FiniteSets, TLC

VARIABLES now, dirs, files, ioFault, call, lastSave, lastWrite, nSaves, input

vars == <<now, dirs, files, ioFault, call, lastSave, lastWrite, nSaves, input>>

\* ------------------------------------------------------------------ bounds

\* Clock resolution: ticks per day (2: half-day ticks).
TicksPerDay == 2
\* The clock stops here.
MaxNow == 5
\* Saves (save_algo_object, save_algo_df) in one behaviour.
MaxSaves == 2
\* Longest enumerated frequency expression.
MaxFreqLen == 3
\* Offsets (minutes) of the rows of a table from its base timestamp: 0..MaxOffset.
MaxOffset == 3
\* Largest candle size tried.
MaxCandle == 3

\* ------------------------------------------------------------ paths, files

Sep == "/"

\* Python's None, where the code tests for it.
None == "<None>"

NoRel == [isNone |-> TRUE, path |-> <<>>]
Rel(p) == [isNone |-> FALSE, path |-> p]

\* posixpath.join(a, b)
Join(a, b) ==
    IF b # <<>> /\ Head(b) = Sep THEN b
    ELSE IF a = <<>> \/ a[Len(a)] = Sep THEN a \o b
    ELSE a \o <<Sep>> \o b

\* A path without its trailing separators.
RECURSIVE StripSep(_)
StripSep(p) ==
    IF Len(p) > 1 /\ p[Len(p)] = Sep THEN StripSep(SubSeq(p, 1, Len(p) - 1)) ELSE p

\* The directory a path names and the directories above it (below "/").
Ancestors(p) ==
    LET q == StripSep(p)
    IN  {q} \cup {SubSeq(q, 1, i - 1) : i \in {j \in 2..Len(q) : q[j] = Sep}}

\* catalyst.utils.paths.data_root(environ)
DataRoot == <<Sep, "catalyst">>

\* catalyst.utils.paths.ensure_directory(path): the directories afterwards.
EnsureDirectory(ds, p) == ds \cup Ancestors(p)

\* os.path.isfile(filename)
IsFile(fs, p) == p \in DOMAIN fs

\* catalyst.utils.paths.last_modified_time(filename)
LastModifiedTime(fs, p) == fs[p].mtime

NoFiles == [p \in {} |-> 0]

WriteFile(fs, p, c) == (p :> c) @@ fs

\* ------------------------------------------------ exchange symbol cache

Exchanges == {"bitfinex", "poloniex"}

\* What the remote endpoint may hold.
RemoteBodies == {"symbols_v1", "symbols_v2"}

\* How urlretrieve may end: the body written to the file; the URL not opened
\* (the file untouched); the transfer cut short (the file begun); an HTTP error
\* whose page Python 2's urlretrieve writes to the file without raising.
FetchOutcomes == {"ok", "unreachable", "short", "error_page"}

\* The staleness threshold of get_exchange_symbols, in days.
StaleDays == 1

JsonFile(doc, t) == [fmt |-> "json", doc |-> doc, mtime |-> t]
TruncatedFile(t) == [fmt |-> "truncated", doc |-> None, mtime |-> t]
HtmlFile(t) == [fmt |-> "html", doc |-> None, mtime |-> t]

get_exchange_folder(exchange_name) ==
    Join(Join(DataRoot, <<"exchanges">>), <<exchange_name>>)

get_exchange_symbols_filename(exchange_name) ==
    Join(get_exchange_folder(exchange_name), <<"symbols.json">>)

\* pd.Timedelta(...).days: whole days, rounded down.
TimedeltaDays(delta) == delta \div TicksPerDay

\* The condition under which get_exchange_symbols downloads.
needs_download(fs, t, filename) ==
    \/ ~IsFile(fs, filename)
    \/ TimedeltaDays(t - LastModifiedTime(fs, filename)) > StaleDays

\* request.urlretrieve(url, filename): the files afterwards and what it raised.
download_exchange_symbols(fs, t, exchange_name, fetch, body) ==
    LET filename == get_exchange_symbols_filename(exchange_name)
    IN  CASE fetch = "ok" ->
               [files |-> WriteFile(fs, filename, JsonFile(body, t)), raised |-> None]
          [] fetch = "unreachable" ->
               [files |-> fs, raised |-> "URLError"]
          [] fetch = "short" ->
               [files |-> WriteFile(fs, filename, TruncatedFile(t)),
                raised |-> "ContentTooShortError"]
          [] fetch = "error_page" ->
               [files |-> WriteFile(fs, filename, HtmlFile(t)), raised |-> None]

\* json.load(data_file)
json_load(content) ==
    IF content.fmt = "json" THEN [raised |-> None, data |-> content.doc]
    ELSE [raised |-> "JSONDecodeError", data |-> None]

get_exchange_symbols(fs, ds, t, exchange_name, fetch, body) ==
    LET filename == get_exchange_symbols_filename(exchange_name)
        ds1 == EnsureDirectory(ds, get_exchange_folder(exchange_name))
        refresh == needs_download(fs, t, filename)
        dl == IF refresh THEN download_exchange_symbols(fs, t, exchange_name, fetch, body)
              ELSE [files |-> fs, raised |-> None]
        fetched == IF refresh THEN <<"fetch">> ELSE <<>>
    IN  IF dl.raised # None
        THEN [files |-> dl.files, dirs |-> ds1, events |-> fetched,
              outcome |-> dl.raised, value |-> None]
        ELSE IF IsFile(dl.files, filename)
        THEN LET parsed == json_load(dl.files[filename])
             IN  [files |-> dl.files, dirs |-> ds1, events |-> fetched \o <<"read">>,
                  outcome |-> IF parsed.raised = None THEN "ok" ELSE parsed.raised,
                  value |-> parsed.data]
        ELSE [files |-> dl.files, dirs |-> ds1, events |-> fetched,
              outcome |-> "ExchangeSymbolsNotFound", value |-> None]

NoCall == [op |-> "none"]

GetExchangeSymbols ==
    \E e \in Exchanges, fetch \in FetchOutcomes, body \in RemoteBodies :
        LET filename == get_exchange_symbols_filename(e)
            r == get_exchange_symbols(files, dirs, now, e, fetch, body)
            existed == IsFile(files, filename)
        IN  /\ files' = r.files
            /\ dirs' = r.dirs
            /\ call' = [op |-> "get_exchange_symbols", exchange |-> e,
                        filename |-> filename,
                        preExists |-> existed,
                        preAge |-> IF existed THEN now - LastModifiedTime(files, filename)
                                   ELSE 0,
                        preData |-> IF existed THEN json_load(files[filename]).data
                                    ELSE None,
                        fetch |-> IF r.events # <<>> /\ Head(r.events) = "fetch"
                                  THEN fetch ELSE None,
                        events |-> r.events, outcome |-> r.outcome, value |-> r.value]
            /\ UNCHANGED <<now, ioFault, lastSave, lastWrite, nSaves, input>>

\* Time passes.
Tick ==
    /\ now < MaxNow
    /\ now' = now + 1
    /\ UNCHANGED <<dirs, files, ioFault, call, lastSave, lastWrite, nSaves, input>>

InitCache ==
    /\ now = 0
    /\ dirs = {}
    /\ files = NoFiles
    /\ ioFault = FALSE
    /\ call = NoCall
    /\ lastSave = <<>>
    /\ lastWrite = <<>>
    /\ nSaves = 0
    /\ input = <<>>

NextCache == GetExchangeSymbols \/ Tick

SpecCache == InitCache /\ [][NextCache]_vars

\* ---- claims about the symbol cache

Attempted(c) == c.events # <<>> /\ Head(c.events) = "fetch"

\* C1: a call downloads, before it reads, exactly when the snapshot file is absent
\* or older than one day; a file aged between one and two days is refreshed.
C1_RefreshIffOlderThanADay ==
    call.op = "get_exchange_symbols" =>
        LET stale == ~call.preExists \/ call.preAge > StaleDays * TicksPerDay
        IN  /\ stale <=> Attempted(call)
            /\ \A i \in 1..Len(call.events) : call.events[i] = "fetch" => i = 1

\* C2: when the snapshot is stale, a file exists and the download fails, the call
\* still returns the parsed content of the stale file and ends in no error.
C2_StaleServedWhenFetchFails ==
    ( /\ call.op = "get_exchange_symbols"
      /\ call.preExists
      /\ Attempted(call)
      /\ call.fetch # "ok" )
    => (call.outcome = "ok" /\ call.value = call.preData)

\* C3: the call ends with ExchangeSymbolsNotFound exactly when no snapshot file
\* exists after the refresh attempt.
C3_NotFoundIffNoFileAfterAttempt ==
    call.op = "get_exchange_symbols" =>
        ( call.outcome = "ExchangeSymbolsNotFound"
          <=> ~IsFile(files, call.filename) )

\* ------------------------------------------------ per-algorithm store

\* rel_path: None, the empty string, a directory name.
RelPaths == {NoRel, Rel(<<>>), Rel(<<"sub">>)}
Objects == {"obj_1", "obj_2"}
Tables == {"df_1"}

\* pd.DataFrame()
EmptyDataFrame == "DataFrame()"

PickleFile(obj, t) == [fmt |-> "pickle", doc |-> obj, mtime |-> t]
CsvFile(df, t) == [fmt |-> "csv", doc |-> df, mtime |-> t]

get_algo_folder(algo_name) ==
    Join(Join(DataRoot, <<"live_algos">>), <<algo_name>>)

\* The folder get_algo_object, save_algo_object, get_algo_df and save_algo_df
\* work in: the algorithm's folder, joined with rel_path unless that is None.
algo_rel_folder(algo_name, rel_path) ==
    IF rel_path.isNone THEN get_algo_folder(algo_name)
    ELSE Join(get_algo_folder(algo_name), rel_path.path)

\* get_algo_object forgetting rel_path.
get_algo_object_filename_no_rel(algo_name, key, rel_path) ==
    Join(get_algo_folder(algo_name), <<key, ".p">>)

\* filename of get_algo_object: os.path.join(folder, key + '.p')
get_algo_object_filename(algo_name, key, rel_path) ==
    Join(algo_rel_folder(algo_name, rel_path), <<key, ".p">>)

\* filename of save_algo_object
save_algo_object_filename(algo_name, key, rel_path) ==
    Join(algo_rel_folder(algo_name, rel_path), <<key, ".p">>)

\* filename of get_algo_df: os.path.join(folder, key + '.csv')
get_algo_df_filename(algo_name, key, rel_path) ==
    Join(algo_rel_folder(algo_name, rel_path), <<key, ".csv">>)

\* filename of save_algo_df
save_algo_df_filename(algo_name, key, rel_path) ==
    Join(algo_rel_folder(algo_name, rel_path), <<key, ".csv">>)

\* The directories a save makes sure of: the algorithm's folder and, for a
\* rel_path that is not None, the joined folder.
dirs_after_save(ds, algo_name, rel_path) ==
    LET ds1 == EnsureDirectory(ds, get_algo_folder(algo_name))
    IN  IF rel_path.isNone THEN ds1
        ELSE EnsureDirectory(ds1, algo_rel_folder(algo_name, rel_path))

\* A read that makes sure of the joined folder, as a save does.
dirs_after_read_ensuring_rel(ds, algo_name, rel_path) ==
    dirs_after_save(ds, algo_name, rel_path)

\* The directories a read makes sure of: get_algo_folder's ensure_directory.
dirs_after_read(ds, algo_name, rel_path) ==
    EnsureDirectory(ds, get_algo_folder(algo_name))

\* open(filename, 'rb'): IOError when the file cannot be read.
open_read(fs, fault, filename) ==
    IF fault THEN [raised |-> "IOError", content |-> None]
    ELSE [raised |-> None, content |-> fs[filename]]

\* pickle.load(handle)
pickle_load(content) ==
    IF content.fmt = "pickle" THEN [raised |-> None, data |-> content.doc]
    ELSE [raised |-> "UnpicklingError", data |-> None]

\* pd.read_csv(handle, index_col=0, parse_dates=True)
read_csv(content) ==
    IF content.fmt = "csv" THEN [raised |-> None, data |-> content.doc]
    ELSE [raised |-> "EmptyDataError", data |-> None]

get_algo_object(fs, ds, fault, algo_name, key, rel_path) ==
    IF algo_name = None
    THEN [dirs |-> ds, outcome |-> "ok", value |-> None]
    ELSE
    LET ds1 == dirs_after_read(ds, algo_name, rel_path)
        filename == get_algo_object_filename(algo_name, key, rel_path)
    IN  IF IsFile(fs, filename)
        THEN LET h == open_read(fs, fault, filename)
                 loaded == IF h.raised = None THEN pickle_load(h.content) ELSE h
             IN  \* except Exception: return None
                 IF h.raised = None /\ loaded.raised = None
                 THEN [dirs |-> ds1, outcome |-> "ok", value |-> loaded.data]
                 ELSE [dirs |-> ds1, outcome |-> "ok", value |-> None]
        ELSE [dirs |-> ds1, outcome |-> "ok", value |-> None]

save_algo_object(fs, ds, t, algo_name, key, obj, rel_path) ==
    [dirs |-> dirs_after_save(ds, algo_name, rel_path),
     files |-> WriteFile(fs, save_algo_object_filename(algo_name, key, rel_path),
                         PickleFile(obj, t))]

\* What get_algo_df's try block lets through: everything but IOError.
df_read_outcome(raised) ==
    IF raised = "IOError" THEN [outcome |-> "ok", value |-> EmptyDataFrame]
    ELSE [outcome |-> raised, value |-> None]

get_algo_df(fs, ds, fault, algo_name, key, rel_path) ==
    LET ds1 == dirs_after_read(ds, algo_name, rel_path)
        filename == get_algo_df_filename(algo_name, key, rel_path)
    IN  IF IsFile(fs, filename)
        THEN LET h == open_read(fs, fault, filename)
                 parsed == IF h.raised = None THEN read_csv(h.content) ELSE h
             IN  IF h.raised # None
                 THEN [dirs |-> ds1] @@ df_read_outcome(h.raised)
                 ELSE IF parsed.raised # None
                 THEN [dirs |-> ds1] @@ df_read_outcome(parsed.raised)
                 ELSE [dirs |-> ds1, outcome |-> "ok", value |-> parsed.data]
        ELSE [dirs |-> ds1, outcome |-> "ok", value |-> EmptyDataFrame]

save_algo_df(fs, ds, t, algo_name, key, df, rel_path) ==
    [dirs |-> dirs_after_save(ds, algo_name, rel_path),
     files |-> WriteFile(fs, save_algo_df_filename(algo_name, key, rel_path),
                         CsvFile(df, t))]

\* The (algo_name, key, rel_path) arguments tried: one place, and the places that
\* differ from it in the relative path, in the key, or in the algorithm.
Triples ==
    {<<"algo_a", "k1", rp>> : rp \in RelPaths}
        \cup {<<"algo_a", "k2", NoRel>>, <<"algo_b", "k1", NoRel>>,
              <<"algo_b", "k2", Rel(<<"sub">>)>>}
ObjectFiles == {save_algo_object_filename(tr[1], tr[2], tr[3]) : tr \in Triples}

GetObject ==
    \E tr \in Triples \cup {<<None, "k1", NoRel>>} :
        LET a == tr[1]
            k == tr[2]
            rp == tr[3]
            r == get_algo_object(files, dirs, ioFault, a, k, rp)
        IN  /\ dirs' = r.dirs
            /\ call' = [op |-> "get_algo_object", algo_name |-> a, key |-> k,
                        rel_path |-> rp, outcome |-> r.outcome, value |-> r.value]
            /\ UNCHANGED <<now, files, ioFault, lastSave, lastWrite, nSaves, input>>

SaveObject ==
    /\ nSaves < MaxSaves
    /\ \E tr \in Triples, obj \in Objects :
        LET a == tr[1]
            k == tr[2]
            rp == tr[3]
            r == save_algo_object(files, dirs, now, a, k, obj, rp)
        IN  /\ dirs' = r.dirs
            /\ files' = r.files
            /\ call' = [op |-> "save_algo_object", algo_name |-> a, key |-> k,
                        rel_path |-> rp, outcome |-> "ok", value |-> None]
            /\ lastSave' = [lastSave EXCEPT ![<<a, k, rp>>] = obj]
            /\ lastWrite' =
                 [lastWrite EXCEPT ![save_algo_object_filename(a, k, rp)] = obj]
            /\ nSaves' = nSaves + 1
            /\ UNCHANGED <<now, ioFault, input>>

GetDf ==
    \E tr \in Triples :
        LET a == tr[1]
            k == tr[2]
            rp == tr[3]
            r == get_algo_df(files, dirs, ioFault, a, k, rp)
        IN  /\ dirs' = r.dirs
            /\ call' = [op |-> "get_algo_df", algo_name |-> a, key |-> k,
                        rel_path |-> rp, outcome |-> r.outcome, value |-> r.value]
            /\ UNCHANGED <<now, files, ioFault, lastSave, lastWrite, nSaves, input>>

SaveDf ==
    /\ nSaves < MaxSaves
    /\ \E tr \in Triples, df \in Tables :
        LET a == tr[1]
            k == tr[2]
            rp == tr[3]
            r == save_algo_df(files, dirs, now, a, k, df, rp)
        IN  /\ dirs' = r.dirs
            /\ files' = r.files
            /\ call' = [op |-> "save_algo_df", algo_name |-> a, key |-> k,
                        rel_path |-> rp, outcome |-> "ok", value |-> None]
            /\ nSaves' = nSaves + 1
            /\ UNCHANGED <<now, ioFault, lastSave, lastWrite, input>>

\* The environment: a stored file is cut short (an interrupted write, a bad disk).
CorruptFile ==
    \E p \in DOMAIN files :
        /\ files[p].fmt # "truncated"
        /\ files' = [files EXCEPT ![p] = TruncatedFile(now)]
        /\ UNCHANGED <<now, dirs, ioFault, call, lastSave, lastWrite, nSaves, input>>

\* The environment: the stored files become unreadable, or readable again.
ToggleIoFault ==
    /\ ioFault' = ~ioFault
    /\ UNCHANGED <<now, dirs, files, call, lastSave, lastWrite, nSaves, input>>

InitStore ==
    /\ now = 0
    /\ dirs = {}
    /\ files = NoFiles
    /\ ioFault = FALSE
    /\ call = NoCall
    /\ lastSave = [tr \in Triples |-> None]
    /\ lastWrite = [p \in ObjectFiles |-> None]
    /\ nSaves = 0
    /\ input = <<>>

NextStore == GetObject \/ SaveObject \/ GetDf \/ SaveDf

SpecStore == InitStore /\ [][NextStore]_vars

NextStoreEnv == NextStore \/ CorruptFile \/ ToggleIoFault

SpecStoreEnv == InitStore /\ [][NextStoreEnv]_vars

\* ---- claims about the store

Reads == {"get_algo_object", "get_algo_df"}

\* C4 as stated: get_algo_object(A, K, rel_path) returns the object of the most
\* recent save_algo_object with the same (A, K, rel_path), whatever was saved
\* under other algorithm names, keys, relative paths or as a table.
C4_GetReturnsLastSaveOfSameArguments ==
    (call.op = "get_algo_object" /\ call.algo_name # None) =>
        call.value = lastSave[<<call.algo_name, call.key, call.rel_path>>]

\* C4 as amended: get_algo_object(A, K, rel_path) returns the object of the most
\* recent save_algo_object whose arguments name the same file (none when there
\* was no such save); saves that name another file, and every save_algo_df,
\* leave the result alone. rel_path None and rel_path '' name the same file.
C4_GetReturnsLastSaveToSameFile ==
    (call.op = "get_algo_object" /\ call.algo_name # None) =>
        call.value =
            lastWrite[save_algo_object_filename(call.algo_name, call.key, call.rel_path)]

\* An object read back after it was overwritten through the other spelling of
\* its folder: the last save with the read's own arguments stored another object.
C4_Witness ==
    /\ call.op = "get_algo_object"
    /\ call.algo_name # None
    /\ call.value \in Objects
    /\ nSaves >= 2
    /\ lastSave[<<call.algo_name, call.key, call.rel_path>>] \in Objects \ {call.value}

\* C5: get_algo_df lets no error through: it returns an empty table when the
\* file is missing and when the file cannot be read or parsed.
C5_GetDfNeverRaises ==
    call.op = "get_algo_df" =>
        LET filename == get_algo_df_filename(call.algo_name, call.key, call.rel_path)
        IN  /\ call.outcome = "ok"
            /\ (~IsFile(files, filename) \/ ioFault \/ files[filename].fmt # "csv")
                   => call.value = EmptyDataFrame

\* C6 as stated: a read (get_algo_object, get_algo_df) creates no directory and
\* changes no file.
C6_ReadsLeaveFilesystemUnchanged ==
    [][call'.op \in Reads => (dirs' = dirs /\ files' = files)]_vars

\* C6 as amended: a read changes no file and never creates the folder of its
\* rel_path; the only directories it may create are the algorithm's own folder
\* and the folders above it, and with algo_name None it creates none.
C6_ReadsCreateOnlyAlgoFolder ==
    [][call'.op \in Reads =>
         /\ files' = files
         /\ dirs' \subseteq
              dirs \cup (IF call'.algo_name = None THEN {}
                         ELSE Ancestors(get_algo_folder(call'.algo_name)))]_vars

\* A read of a never-saved algorithm with a rel_path: the algorithm's folder
\* now exists, the folder of the rel_path does not.
C6_Witness ==
    /\ call.op \in Reads
    /\ call.algo_name # None
    /\ call.rel_path = Rel(<<"sub">>)
    /\ nSaves = 0
    /\ get_algo_folder(call.algo_name) \in dirs
    /\ algo_rel_folder(call.algo_name, call.rel_path) \notin dirs

\* ------------------------------------------------ frequency expressions

\* A string is a sequence of one-character strings.
DigitChars == <<"0", "1", "2", "3", "4", "5", "6", "7", "8", "9">>
IsDigit(c) == \E i \in 1..Len(DigitChars) : DigitChars[i] = c
DigitValue(c) == (CHOOSE i \in 1..Len(DigitChars) : DigitChars[i] = c) - 1

\* The characters the enumerated frequency expressions are made of.
FreqAlphabet == {"0", "1", "5", "m", "M", "d", "D", "x"}

RECURSIVE StringsUpTo(_)
StringsUpTo(n) ==
    IF n = 0 THEN {<<>>}
    ELSE LET shorter == StringsUpTo(n - 1)
         IN  shorter \cup {Append(w, c) : w \in shorter, c \in FreqAlphabet}

Daily == <<"d", "a", "i", "l", "y">>
Minute == <<"m", "i", "n", "u", "t", "e">>

FreqInputs ==
    StringsUpTo(MaxFreqLen)
        \cup {Daily, Minute, <<"a", "b", "c">>, <<"5", "h">>, <<"1", "2", "m">>}

DataFrequencies == {"minute", "daily"}

\* str.lower() on one character.
Lower(c) == CASE c = "M" -> "m" [] c = "D" -> "d" [] OTHER -> c

\* The first lines of get_frequency: the aliases.
freq_alias(freq) ==
    IF freq = Daily THEN <<"1", "d">>
    ELSE IF freq = Minute THEN <<"1", "m">>
    ELSE freq

\* re.match(r'([0-9].*)(m|M|d|D)', freq, re.M | re.I): the match starts at the
\* first character, '.*' is greedy and does not cross a newline, and nothing
\* anchors the end: group 2 is the last unit letter '.*' can stop before.
UnitLetters == {"m", "M", "d", "D"}

re_match_stops(freq) ==
    {j \in 2..Len(freq) :
        /\ freq[j] \in UnitLetters
        /\ \A i \in 2..(j - 1) : freq[i] # "\n"}

re_match(freq) ==
    IF freq # <<>> /\ IsDigit(freq[1]) /\ re_match_stops(freq) # {}
    THEN LET j == CHOOSE k \in re_match_stops(freq) :
                      \A l \in re_match_stops(freq) : l <= k
         IN  [matched |-> TRUE, group1 |-> SubSeq(freq, 1, j - 1), group2 |-> freq[j]]
    ELSE [matched |-> FALSE, group1 |-> <<>>, group2 |-> None]

\* int(text) for a text of these characters: its value when every character is
\* a digit, ValueError otherwise.
RECURSIVE int_value(_, _)
int_value(text, acc) ==
    IF text = <<>> THEN acc
    ELSE int_value(Tail(text), acc * 10 + DigitValue(Head(text)))

int_of(text) ==
    IF text # <<>> /\ \A i \in 1..Len(text) : IsDigit(text[i])
    THEN [raised |-> None, value |-> int_value(text, 0)]
    ELSE [raised |-> "ValueError", value |-> 0]

\* The unit test of get_frequency comparing the unit as matched, not lowered.
resolve_data_frequency_case_sensitive(unit, data_frequency) ==
    IF unit = "d"
    THEN [raised |-> None,
          data_frequency |-> IF data_frequency = "minute" THEN "daily"
                             ELSE data_frequency]
    ELSE IF unit = "m"
    THEN [raised |-> None,
          data_frequency |-> IF data_frequency = "daily" THEN "minute"
                             ELSE data_frequency]
    ELSE [raised |-> "InvalidHistoryFrequencyError", data_frequency |-> data_frequency]

\* The unit test of get_frequency: the data frequency follows the unit.
resolve_data_frequency(unit, data_frequency) ==
    IF Lower(unit) = "d"
    THEN [raised |-> None,
          data_frequency |-> IF data_frequency = "minute" THEN "daily"
                             ELSE data_frequency]
    ELSE IF Lower(unit) = "m"
    THEN [raised |-> None,
          data_frequency |-> IF data_frequency = "daily" THEN "minute"
                             ELSE data_frequency]
    ELSE [raised |-> "InvalidHistoryFrequencyError", data_frequency |-> data_frequency]

FreqError(kind, freq) ==
    [outcome |-> kind, candle_size |-> 0, unit |-> None, data_frequency |-> None,
     error_freq |-> freq]

get_frequency(freq0, data_frequency) ==
    LET freq == freq_alias(freq0)
        freq_match == re_match(freq)
    IN  IF ~freq_match.matched
        THEN FreqError("InvalidHistoryFrequencyError", freq)
        ELSE
        LET candle_size == int_of(freq_match.group1)
            unit == freq_match.group2
            resolved == resolve_data_frequency(unit, data_frequency)
        IN  IF candle_size.raised # None THEN FreqError(candle_size.raised, <<>>)
            ELSE IF resolved.raised # None THEN FreqError(resolved.raised, freq)
            ELSE [outcome |-> "ok", candle_size |-> candle_size.value, unit |-> unit,
                  data_frequency |-> resolved.data_frequency, error_freq |-> <<>>]

GetFrequency ==
    /\ call' = [op |-> "get_frequency"]
                  @@ get_frequency(input.freq, input.data_frequency)
    /\ UNCHANGED <<now, dirs, files, ioFault, lastSave, lastWrite, nSaves, input>>

InitFreq ==
    /\ now = 0
    /\ dirs = {}
    /\ files = NoFiles
    /\ ioFault = FALSE
    /\ call = NoCall
    /\ lastSave = <<>>
    /\ lastWrite = <<>>
    /\ nSaves = 0
    /\ input \in [freq : FreqInputs, data_frequency : DataFrequencies]

NextFreq == GetFrequency

SpecFreq == InitFreq /\ [][NextFreq]_vars

\* ---- claims about get_frequency

\* The shape ^[0-9]+[mMdD]$.
ValidFreq(freq) ==
    /\ Len(freq) >= 2
    /\ \A i \in 1..(Len(freq) - 1) : IsDigit(freq[i])
    /\ freq[Len(freq)] \in UnitLetters

\* The number a string of digits writes, from its last digit up.
RECURSIVE Decimal(_)
Decimal(ds) ==
    IF ds = <<>> THEN 0
    ELSE Decimal(SubSeq(ds, 1, Len(ds) - 1)) * 10 + DigitValue(ds[Len(ds)])

\* C7: an expression that, after the aliases, is not digits followed by one of
\* m, M, d, D fails with InvalidHistoryFrequencyError carrying the expression.
C7_InvalidShapeRaisesInvalidFrequency ==
    (call.op = "get_frequency" /\ ~ValidFreq(freq_alias(input.freq))) =>
        /\ call.outcome = "InvalidHistoryFrequencyError"
        /\ call.error_freq = freq_alias(input.freq)

\* C8: for a valid expression and a requested data frequency of minute or daily,
\* the result is the numeric prefix, the unit letter, and a data frequency that
\* is daily exactly for the unit d/D and minute exactly for the unit m/M.
C8_ValidFrequencyResolved ==
    ( /\ call.op = "get_frequency"
      /\ ValidFreq(freq_alias(input.freq))
      /\ input.data_frequency \in DataFrequencies ) =>
        LET freq == freq_alias(input.freq)
            n == Len(freq)
        IN  /\ call.outcome = "ok"
            /\ call.candle_size = Decimal(SubSeq(freq, 1, n - 1))
            /\ call.unit = freq[n]
            /\ call.data_frequency = "daily" <=> call.unit \in {"d", "D"}
            /\ call.data_frequency = "minute" <=> call.unit \in {"m", "M"}

\* "5m" asked with daily data came back as (5, m, minute).
C8_Witness ==
    /\ call.op = "get_frequency"
    /\ input.freq = <<"5", "m">>
    /\ input.data_frequency = "daily"
    /\ call.outcome = "ok"
    /\ call.candle_size = 5
    /\ call.unit = "m"
    /\ call.data_frequency = "minute"

\* ------------------------------------------------ resampling

\* A table is a sequence of rows [ts, v, nan] in increasing order of ts (minutes
\* since the epoch): one column of integer values, nan for a missing value.
Row(ts, v) == [ts |-> ts, v |-> v, nan |-> FALSE]
NanRow(ts) == [ts |-> ts, v |-> 0, nan |-> TRUE]

Fields == {"open", "high", "low", "close", "volume"}
FieldInputs == Fields \cup {"vwap"}

MinutesPerDay == 1440

\* A candle size that does not divide a day.
OddCandle == 7

CandleSizes == 0..MaxCandle \cup {OddCandle}

\* Where the tables tried start: at midnight, just before the next midnight.
Bases == {0, MinutesPerDay - 1}

RowValues == {1, 2}

\* The rows at the offsets of set S from base, with the values of f.
RECURSIVE RowsOf(_, _, _)
RowsOf(base, S, f) ==
    IF S = {} THEN <<>>
    ELSE LET o == CHOOSE x \in S : \A y \in S : x <= y
         IN  <<Row(base + o, f[o])>> \o RowsOf(base, S \ {o}, f)

TableInputs ==
    UNION {{RowsOf(base, S, f) : f \in [S -> RowValues]} :
              base \in Bases, S \in SUBSET (0..MaxOffset)}

\* The aggregations of open and close exchanged.
agg_of_field_close_first(field) ==
    CASE field = "open" -> "last"
      [] field = "high" -> "max"
      [] field = "low" -> "min"
      [] field = "close" -> "first"
      [] field = "volume" -> "sum"
      [] OTHER -> None

\* The aggregation resample_history_df picks for a field; None for no field of
\* the table.
agg_of_field(field) ==
    CASE field = "open" -> "first"
      [] field = "high" -> "max"
      [] field = "low" -> "min"
      [] field = "close" -> "last"
      [] field = "volume" -> "sum"
      [] OTHER -> None

RECURSIVE SeqSum(_)
SeqSum(vs) == IF vs = <<>> THEN 0 ELSE Head(vs) + SeqSum(Tail(vs))

\* GroupBy.agg(agg) on the values of one non-empty group, in row order.
aggregate(agg, vs) ==
    CASE agg = "first" -> vs[1]
      [] agg = "last" -> vs[Len(vs)]
      [] agg = "max" -> CHOOSE x \in {vs[i] : i \in 1..Len(vs)} :
                            \A i \in 1..Len(vs) : vs[i] <= x
      [] agg = "min" -> CHOOSE x \in {vs[i] : i \in 1..Len(vs)} :
                            \A i \in 1..Len(vs) : x <= vs[i]
      [] agg = "sum" -> SeqSum(vs)

\* Timestamp.normalize(): midnight of the timestamp's day.
DayStart(ts) == (ts \div MinutesPerDay) * MinutesPerDay

\* The left edge of the first bin of df.resample('{n}T'): bins are closed on
\* the left and counted from midnight of the first row's day.
first_bin(df, n) ==
    df[1].ts - ((df[1].ts - DayStart(df[1].ts)) % n)

SelectRows(df, lo, hi) == SelectSeq(df, LAMBDA r : lo <= r.ts /\ r.ts < hi)

Values(rows) == [i \in 1..Len(rows) |-> rows[i].v]

\* df.resample('{n}T').agg(agg): one row per bin from the first row's bin to the
\* last row's, a bin without rows included. What the sum of no rows is depends
\* on the pandas in use: NaN (sum_nan) or 0.
resample_agg(df, n, agg, sum_nan) ==
    IF df = <<>> THEN <<>>
    ELSE
    LET start == first_bin(df, n)
        bins == (df[Len(df)].ts - start) \div n + 1
    IN  [k \in 1..bins |->
            LET lo == start + (k - 1) * n
                rows == SelectRows(df, lo, lo + n)
            IN  IF rows # <<>> THEN Row(lo, aggregate(agg, Values(rows)))
                ELSE IF agg = "sum" /\ ~sum_nan THEN Row(lo, 0)
                ELSE NanRow(lo)]

resample_history_df(df, candle_size, field, sum_nan) ==
    IF candle_size > 1
    THEN IF agg_of_field(field) = None
         THEN [outcome |-> "ValueError", df |-> <<>>]
         ELSE [outcome |-> "ok",
               df |-> resample_agg(df, candle_size, agg_of_field(field), sum_nan)]
    ELSE [outcome |-> "ok", df |-> df]

ResampleHistoryDf ==
    /\ \E sum_nan \in BOOLEAN :
          call' = [op |-> "resample_history_df"]
                     @@ resample_history_df(input.df, input.candle_size, input.field,
                                            sum_nan)
    /\ UNCHANGED <<now, dirs, files, ioFault, lastSave, lastWrite, nSaves, input>>

InitResample ==
    /\ now = 0
    /\ dirs = {}
    /\ files = NoFiles
    /\ ioFault = FALSE
    /\ call = NoCall
    /\ lastSave = <<>>
    /\ lastWrite = <<>>
    /\ nSaves = 0
    /\ input \in [df : TableInputs, candle_size : CandleSizes, field : FieldInputs]

NextResample == ResampleHistoryDf

SpecResample == InitResample /\ [][NextResample]_vars

\* ---- claims about resample_history_df

\* C9: a field outside open, high, low, close, volume fails with the invalid
\* field error for every candle size.
C9_UnknownFieldRaises ==
    (call.op = "resample_history_df" /\ input.field \notin Fields) =>
        call.outcome = "ValueError"

\* The rows of df are consecutive minutes.
ConsecutiveMinutes(df) == \A i \in 1..(Len(df) - 1) : df[i + 1].ts = df[i].ts + 1

InBin(r, b, n) == b.ts <= r.ts /\ r.ts < b.ts + n

\* Bins of n minutes, one after the other, each row of df in exactly one, and
\* every bin that holds rows carrying the field's aggregate of them.
BinsAggregate(df, out, n, field) ==
    /\ \A k \in 1..(Len(out) - 1) : out[k + 1].ts = out[k].ts + n
    /\ \A i \in 1..Len(df) :
          Cardinality({k \in 1..Len(out) : InBin(df[i], out[k], n)}) = 1
    /\ \A k \in 1..Len(out) :
          LET I == {i \in 1..Len(df) : InBin(df[i], out[k], n)}
          IN  I # {} =>
                /\ ~out[k].nan
                /\ field = "open" => \E i \in I : (\A j \in I : i <= j) /\ out[k].v = df[i].v
                /\ field = "close" => \E i \in I : (\A j \in I : j <= i) /\ out[k].v = df[i].v
                /\ field = "high" => \E i \in I : (\A j \in I : df[j].v <= df[i].v)
                                                  /\ out[k].v = df[i].v
                /\ field = "low" => \E i \in I : (\A j \in I : df[i].v <= df[j].v)
                                                 /\ out[k].v = df[i].v
                /\ field = "volume" => out[k].v = SeqSum([j \in 1..Len(df) |->
                                                   IF j \in I THEN df[j].v ELSE 0])

\* C10 as stated: for a candle size above 1 the rows are grouped into bins of
\* candle_size minutes and aggregated by field; candle_size consecutive
\* one-minute rows give a single row wherever they start; candle size 1 returns
\* the table as it is.
C10_ResampleAggregatesAnyRunToOneRow ==
    (call.op = "resample_history_df" /\ input.field \in Fields) =>
        /\ input.candle_size > 1 =>
              /\ call.outcome = "ok"
              /\ BinsAggregate(input.df, call.df, input.candle_size, input.field)
              /\ (Len(input.df) = input.candle_size /\ ConsecutiveMinutes(input.df))
                    => Len(call.df) = 1
        /\ input.candle_size = 1 => (call.outcome = "ok" /\ call.df = input.df)

\* C10 as amended: as stated, but candle_size consecutive one-minute rows give a
\* single row when the first of them starts a bin, that is, lies a multiple of
\* candle_size minutes after midnight of its day.
C10_ResampleAggregatesAlignedRunToOneRow ==
    (call.op = "resample_history_df" /\ input.field \in Fields) =>
        /\ input.candle_size > 1 =>
              /\ call.outcome = "ok"
              /\ BinsAggregate(input.df, call.df, input.candle_size, input.field)
              /\ ( /\ Len(input.df) = input.candle_size
                   /\ ConsecutiveMinutes(input.df)
                   /\ (input.df[1].ts - DayStart(input.df[1].ts)) % input.candle_size = 0 )
                    => Len(call.df) = 1
        /\ input.candle_size = 1 => (call.outcome = "ok" /\ call.df = input.df)

\* Three consecutive rows from midnight with closes 1, 2, 2 and candle size 3
\* gave the single row with close 2.
C10_Witness ==
    /\ call.op = "resample_history_df"
    /\ input.field = "close"
    /\ input.candle_size = 3
    /\ input.df = <<Row(0, 1), Row(1, 2), Row(2, 2)>>
    /\ call.df = <<Row(0, 2)>>

====
